---- MODULE Spec2Model ----
(***************************************************************************)
(* Model of ll_model_selection.py (hardware probe, model recommendation,   *)
(* orchestration) and of the parts of html_report.py that depend on the    *)
(* data (tier badge, device cards, CPU warning panel).                     *)
(*                                                                         *)
(* Memory sizes are Python floats in GB.  They are modelled as integers in *)
(* units of 1/Scale GB (a quarter of a hundredth of a GB), so that every   *)
(* value with two decimals (47.99, 7.99) is a multiple of four units and   *)
(* the products by 0.75 and 0.5 are exact.  On this grid the IEEE results  *)
(* of the comparisons and of int() are the ones of exact arithmetic: the   *)
(* points where int((v - 2.0) / 0.75) jumps are multiples of 0.25 GB,      *)
(* which binary floats represent exactly.                                  *)
(***************************************************************************)
EXTENDS Integers, Sequences, FiniteSets, TLC

VARIABLES
    machine,      \* the hardware the run finds: [system, ram, gpus, mps]
    pc,           \* position of main() / get_hardware_capacity()
    system,       \* get_hardware_capacity: system
    ram_gb,       \* get_hardware_capacity: ram_gb
    device_type,  \* get_hardware_capacity: device_type
    vram_gb,      \* get_hardware_capacity: vram_gb
    gpu_details,  \* get_hardware_capacity: gpu_details
    gpu_count,    \* get_hardware_capacity: gpu_count
    i,            \* get_hardware_capacity: loop index of the device loop
    max_params,   \* main: max_params (int)
    models,       \* main: models
    html,         \* main: html_content, as the data-dependent parts
    file,         \* the output file: <<>> if absent, else <<the document written>>
    console,      \* the messages printed by the handlers, in order
    calls,        \* the queries, steps of main() and effects made, in order
    gpu_step,     \* outcome of detection step 1
    mps_step,     \* outcome of detection step 2
    cpu_step,     \* outcome of detection step 3
    exit,         \* "running", "ok" (main returned), "exception" (main raised)
    earlier       \* arguments and results of earlier calls of recommend_models

vars == <<machine, pc, system, ram_gb, device_type, vram_gb, gpu_details,
          gpu_count, i, max_params, models, html, file, console, calls,
          gpu_step, mps_step, cpu_step, exit, earlier>>

probeVars == <<system, ram_gb, device_type, vram_gb, gpu_details, gpu_count, i>>
stepVars == <<gpu_step, mps_step, cpu_step, earlier>>

----------------------------------------------------------------------------
(* Bounds and representation *)

Scale == 4 * 100                 \* units per GB

MaxDevices == 2                  \* devices in a machine: 0..MaxDevices
MaxDevMemSteps == 1              \* device memory up to MaxDevMemSteps * 8 GB
MaxRamSteps == 2                 \* system RAM up to MaxRamSteps * 8 GB
MaxQuarterGB == 200              \* estimator inputs up to MaxQuarterGB / 4 GB

SystemNames == {"Linux", "Darwin"}
DeviceNames == {"RTX", "A100"}

\* a device reports 0, or a multiple of 8 GB, or 0.01 GB less than that
DevMems == {0} \cup {k * 8 * Scale - o : k \in 1..MaxDevMemSteps, o \in {0, 4}}

\* installed memory is positive: a multiple of 8 GB, or 0.01 GB more
RamValues == {k * 8 * Scale + o : k \in 1..MaxRamSteps, o \in {0, 4}}

\* estimator inputs: every quarter GB, and 0.24 GB above it (x.24, x.49, x.74, x.99)
EstInputs == {q * (Scale \div 4) + o : q \in 0..MaxQuarterGB, o \in {0, 96}}

\* a product has one memory size: the name of a device follows from its memory
DeviceName(m) == IF m % (8 * Scale) = 0 THEN "RTX" ELSE "A100"

Devices == {d \in [name : DeviceNames, total_memory : DevMems] :
               d.name = DeviceName(d.total_memory)}

RECURSIVE SeqsUpTo(_, _)
SeqsUpTo(S, n) ==
    IF n = 0 THEN {<<>>}
    ELSE LET shorter == SeqsUpTo(S, n - 1)
         IN  shorter \cup {Append(s, x) : s \in {t \in shorter : Len(t) = n - 1}, x \in S}

Machines == [system : SystemNames, ram : RamValues,
             gpus : SeqsUpTo(Devices, MaxDevices), mps : BOOLEAN]

----------------------------------------------------------------------------
(* Constants of ll_model_selection.py *)

MPS_USABLE_MEMORY_RATIO_AsCpu == <<50, 100>>
MPS_USABLE_MEMORY_RATIO == <<75, 100>>     \* 0.75
CPU_USABLE_MEMORY_RATIO_AsMps == <<75, 100>>
CPU_USABLE_MEMORY_RATIO == <<50, 100>>     \* 0.5
CONTEXT_OVERHEAD_GB == 2 * Scale           \* 2.0
QUANT_4BIT_GB_PER_BILLION == (75 * Scale) \div 100   \* 0.75

VRAM_TIER_ENTERPRISE == 48 * Scale
VRAM_TIER_PROFESSIONAL == 24 * Scale
VRAM_TIER_ADVANCED == 16 * Scale
VRAM_TIER_STANDARD == 8 * Scale

DeviceTypes == {"cuda", "mps", "cpu"}

\* float * ratio
Times(x, ratio) == (x * ratio[1]) \div ratio[2]

\* int(n / d) for d > 0: Python's int() truncates toward zero
IntOfQuotient(n, d) == IF n >= 0 THEN n \div d ELSE -((-n) \div d)

----------------------------------------------------------------------------
(* recommend_models *)

EnterpriseModels ==
    << <<"Llama-3.1-70B / Llama-3.3-70B", "High performance flagship models">>,
       <<"Qwen2.5-72B", "Excellent reasoning and multilingual capabilities">>,
       <<"Mixtral 8x7B", "Mixture of Experts architecture for efficiency">> >>

ProfessionalModels ==
    << <<"Llama-3.1-70B", "Heavily quantized, may be slower but very capable">>,
       <<"Mixtral 8x7B", "Comfortable fit with good performance">>,
       <<"Command R (35B)", "Optimized for RAG and tool use">>,
       <<"Qwen2.5-32B", "Strong reasoning with multilingual support">> >>

AdvancedModels ==
    << <<"Llama-3.1-13B / Llama-2-13B", "Balanced performance and efficiency">>,
       <<"Mistral-7B", "Quantized with plenty of headroom">>,
       <<"Qwen2.5-14B", "Strong performance in this tier">> >>

StandardModels ==
    << <<"Llama-3.1-8B", "Gold standard for consumer hardware">>,
       <<"Mistral-7B", "Excellent general-purpose model">>,
       <<"Gemma-7B", "Google's efficient open model">>,
       <<"Qwen2.5-7B", "Strong multilingual capabilities">> >>

EntryModels ==
    << <<"Phi-3-mini (3.8B)", "Highly capable for its size">>,
       <<"Gemma-2B", "Efficient small model">>,
       <<"TinyLlama (1.1B)", "Minimal resource requirements">> >>

\* variants of the clamp of lines 140-141: left out, and set above its threshold
MaxParamsNumerator_NoClamp(v) ==
    IF QUANT_4BIT_GB_PER_BILLION > 0 THEN v - CONTEXT_OVERHEAD_GB ELSE 0

MaxParamsNumerator_ClampTo4(v) ==
    LET raw == IF QUANT_4BIT_GB_PER_BILLION > 0 THEN v - CONTEXT_OVERHEAD_GB ELSE 0
    IN  IF raw < 2 * QUANT_4BIT_GB_PER_BILLION THEN 4 * QUANT_4BIT_GB_PER_BILLION ELSE raw

\* the float max_params before int(), as the numerator over QUANT_4BIT_GB_PER_BILLION
MaxParamsNumerator(v) ==
    LET raw == IF QUANT_4BIT_GB_PER_BILLION > 0 THEN v - CONTEXT_OVERHEAD_GB ELSE 0
    IN  IF raw < 2 * QUANT_4BIT_GB_PER_BILLION THEN 2 * QUANT_4BIT_GB_PER_BILLION ELSE raw

MaxParams(v) == IntOfQuotient(MaxParamsNumerator(v), QUANT_4BIT_GB_PER_BILLION)

\* variant of the ladder of lines 149-180 with strict comparisons
SelectModels_Strict(v) ==
    IF v > VRAM_TIER_ENTERPRISE THEN EnterpriseModels
    ELSE IF v > VRAM_TIER_PROFESSIONAL THEN ProfessionalModels
    ELSE IF v > VRAM_TIER_ADVANCED THEN AdvancedModels
    ELSE IF v > VRAM_TIER_STANDARD THEN StandardModels
    ELSE EntryModels

SelectModels(v) ==
    IF v >= VRAM_TIER_ENTERPRISE THEN EnterpriseModels
    ELSE IF v >= VRAM_TIER_PROFESSIONAL THEN ProfessionalModels
    ELSE IF v >= VRAM_TIER_ADVANCED THEN AdvancedModels
    ELSE IF v >= VRAM_TIER_STANDARD THEN StandardModels
    ELSE EntryModels

CpuNote(dt) == IF dt = "cpu" THEN <<"note: cpu inference slower">> ELSE <<>>

----------------------------------------------------------------------------
(* generate_html_report *)

BackendName(dt) ==
    IF dt = "cuda" THEN "NVIDIA CUDA"
    ELSE IF dt = "mps" THEN "Apple Metal (MPS)"
    ELSE IF dt = "cpu" THEN "CPU Only"
    ELSE "Unknown"

TierBadge(v) ==
    IF v >= 48 * Scale THEN "Enterprise"
    ELSE IF v >= 24 * Scale THEN "Professional"
    ELSE IF v >= 16 * Scale THEN "Advanced"
    ELSE IF v >= 8 * Scale THEN "Standard"
    ELSE "Entry"

\* main passes None for an empty list
GpuDetailsArg(details) == IF details # <<>> THEN [none |-> FALSE, list |-> details]
                          ELSE [none |-> TRUE, list |-> <<>>]

\* f"{x:.1f}", f"{x:.2f}": the text, as the number of tenths or hundredths it
\* reads.  Python rounds the exact binary value to nearest, ties to even; a tie
\* needs a value that ends in 5 and is exact in binary (x.25, x.75 for .1f,
\* x.125, ... for .2f), and every such value of this grid is a multiple of
\* Scale \div 4.
FormatFixed(x, decimals) ==
    LET scaled == x * (IF decimals = 1 THEN 10 ELSE 100)
        q == scaled \div Scale
        r == scaled % Scale
    IN  IF 2 * r < Scale THEN q
        ELSE IF 2 * r > Scale THEN q + 1
        ELSE IF q % 2 = 0 THEN q ELSE q + 1

GpuCard(gpu) == [name |-> gpu.name, vram |-> FormatFixed(gpu.vram, 2)]

\* variant of lines 45-55 that returns inside the loop
GpuCards_FirstOnly(arg) ==
    IF ~arg.none /\ arg.list # <<>> THEN <<GpuCard(arg.list[1])>> ELSE <<>>

\* lines 43-55: gpu_html, as the sequence of its gpu-card elements
GpuCards(arg) ==
    IF ~arg.none /\ arg.list # <<>>
    THEN [k \in 1..Len(arg.list) |-> GpuCard(arg.list[k])]
    ELSE <<>>

GenerateHtmlReport(sys, ram, dt, v, mp, arg, recommended) ==
    [ tier         |-> TierBadge(v),
      system       |-> sys,
      ram_gb       |-> FormatFixed(ram, 1),
      vram_gb      |-> FormatFixed(v, 1),
      max_params   |-> mp,
      backend_name |-> BackendName(dt),
      gpu_grid     |-> GpuCards(arg) # <<>>,
      gpu_cards    |-> GpuCards(arg),
      model_cards  |-> recommended,
      warning_box  |-> (dt = "cpu") ]

NoHtml == [tier |-> "none", system |-> "none", ram_gb |-> 0, vram_gb |-> 0,
           max_params |-> 0, backend_name |-> "none", gpu_grid |-> FALSE,
           gpu_cards |-> <<>>, model_cards |-> <<>>, warning_box |-> FALSE]

----------------------------------------------------------------------------
(* The run of main(): get_hardware_capacity inlined at its call *)

CudaErrors == {"RuntimeError", "ImportError", "Exception"}
MpsErrors == {"RuntimeError", "Exception"}
WriteErrors == {"IOError", "Exception"}

CudaWarning(e) ==
    IF e = "RuntimeError" THEN "Warning: CUDA detection failed"
    ELSE IF e = "ImportError" THEN "Warning: CUDA not available"
    ELSE "Warning: Unexpected error during CUDA detection"

MpsWarning(e) ==
    IF e = "RuntimeError" THEN "Warning: MPS detection failed"
    ELSE "Warning: Unexpected error during MPS detection"

WriteError(e) ==
    IF e = "IOError" THEN "Error saving report" ELSE "Unexpected error"

Init ==
    /\ machine \in Machines
    /\ pc = "system_query"
    /\ system = "none"
    /\ ram_gb = 0
    /\ device_type = "none"
    /\ vram_gb = 0
    /\ gpu_details = <<>>
    /\ gpu_count = 0
    /\ i = 0
    /\ max_params = 0
    /\ models = <<>>
    /\ html = NoHtml
    /\ file = <<>>
    /\ console = <<>>
    /\ calls = <<>>
    /\ gpu_step = "pending"
    /\ mps_step = "pending"
    /\ cpu_step = "pending"
    /\ exit = "running"
    /\ earlier = <<>>

\* lines 66-74: platform.system(), psutil.virtual_memory(); neither is in a try
SystemQuery ==
    /\ pc = "system_query"
    /\ calls' = Append(calls, "system_memory")
    /\ \/ /\ system' = machine.system
          /\ device_type' = "cpu"
          /\ vram_gb' = 0
          /\ ram_gb' = machine.ram
          /\ gpu_details' = <<>>
          /\ console' = Append(console, "Hardware Audit")
          /\ pc' = "cuda_is_available"
          /\ UNCHANGED exit
       \/ /\ pc' = "raised"
          /\ exit' = "exception"
          /\ UNCHANGED <<system, device_type, vram_gb, ram_gb, gpu_details, console>>
    /\ UNCHANGED <<machine, gpu_count, i, max_params, models, html, file, stepVars>>

\* lines 77-79, and the handlers of lines 88-93
CudaIsAvailable ==
    /\ pc = "cuda_is_available"
    /\ calls' = Append(calls, "cuda.is_available")
    /\ \/ /\ machine.gpus # <<>>
          /\ device_type' = "cuda"
          /\ pc' = "cuda_device_count"
          /\ UNCHANGED <<console, gpu_step>>
       \/ /\ machine.gpus = <<>>
          /\ pc' = "mps_check"
          /\ gpu_step' = "absent"
          /\ UNCHANGED <<device_type, console>>
       \/ \E e \in CudaErrors :
             /\ console' = Append(console, CudaWarning(e))
             /\ pc' = "mps_check"
             /\ gpu_step' = "failed"
             /\ UNCHANGED device_type
    /\ UNCHANGED <<machine, system, ram_gb, vram_gb, gpu_details, gpu_count, i,
                   max_params, models, html, file, mps_step, cpu_step, exit, earlier>>

\* lines 80-82
CudaDeviceCount ==
    /\ pc = "cuda_device_count"
    /\ calls' = Append(calls, "cuda.device_count")
    /\ \/ /\ gpu_count' = Len(machine.gpus)
          /\ i' = 0
          /\ console' = Append(console, "Backend: NVIDIA CUDA")
          /\ pc' = "cuda_device_properties"
          /\ UNCHANGED gpu_step
       \/ \E e \in CudaErrors :
             /\ console' = Append(console, CudaWarning(e))
             /\ pc' = "mps_check"
             /\ gpu_step' = "failed"
             /\ UNCHANGED <<gpu_count, i>>
    /\ UNCHANGED <<machine, system, ram_gb, device_type, vram_gb, gpu_details,
                   max_params, models, html, file, mps_step, cpu_step, exit, earlier>>

\* lines 82-87: one iteration of the device loop, or its end
CudaDeviceProperties ==
    /\ pc = "cuda_device_properties"
    /\ \/ /\ i < gpu_count
          /\ calls' = Append(calls, "cuda.get_device_properties")
          /\ \/ LET props == machine.gpus[i + 1]
                    v_mem == props.total_memory
                IN  /\ gpu_details' = Append(gpu_details, [name |-> props.name, vram |-> v_mem])
                    /\ vram_gb' = vram_gb + v_mem
                    /\ i' = i + 1
                    /\ UNCHANGED <<console, pc, gpu_step>>
             \/ \E e \in CudaErrors :
                   /\ console' = Append(console, CudaWarning(e))
                   /\ pc' = "mps_check"
                   /\ gpu_step' = "failed"
                   /\ UNCHANGED <<gpu_details, vram_gb, i>>
       \/ /\ i >= gpu_count
          /\ pc' = "mps_check"
          /\ gpu_step' = "found"
          /\ UNCHANGED <<calls, gpu_details, vram_gb, i, console>>
    /\ UNCHANGED <<machine, system, ram_gb, device_type, gpu_count,
                   max_params, models, html, file, mps_step, cpu_step, exit, earlier>>

\* lines 96-108
MpsCheck ==
    /\ pc = "mps_check"
    /\ pc' = "cpu_fallback"
    /\ \/ /\ vram_gb = 0
          /\ calls' = Append(calls, "mps.is_available")
          /\ \/ /\ machine.mps
                /\ device_type' = "mps"
                /\ vram_gb' = Times(ram_gb, MPS_USABLE_MEMORY_RATIO)
                /\ console' = Append(console, "Backend: Apple Metal Performance Shaders (MPS)")
                /\ mps_step' = "found"
             \/ /\ ~machine.mps
                /\ mps_step' = "absent"
                /\ UNCHANGED <<device_type, vram_gb, console>>
             \/ \E e \in MpsErrors :
                   /\ console' = Append(console, MpsWarning(e))
                   /\ mps_step' = "failed"
                   /\ UNCHANGED <<device_type, vram_gb>>
       \/ /\ vram_gb # 0
          /\ mps_step' = "skipped"
          /\ UNCHANGED <<calls, device_type, vram_gb, console>>
    /\ UNCHANGED <<machine, system, ram_gb, gpu_details, gpu_count, i,
                   max_params, models, html, file, gpu_step, cpu_step, exit, earlier>>

\* lines 110-117
CpuFallback ==
    /\ pc = "cpu_fallback"
    /\ pc' = "recommend_models"
    /\ \/ /\ vram_gb = 0
          /\ device_type' = "cpu"
          /\ vram_gb' = Times(ram_gb, CPU_USABLE_MEMORY_RATIO)
          /\ console' = Append(console, "Backend: CPU Only")
          /\ cpu_step' = "taken"
       \/ /\ vram_gb # 0
          /\ cpu_step' = "skipped"
          /\ UNCHANGED <<device_type, vram_gb, console>>
    /\ UNCHANGED <<machine, system, ram_gb, gpu_details, gpu_count, i,
                   max_params, models, html, file, calls, gpu_step, mps_step, exit, earlier>>

\* line 202
RecommendModels ==
    /\ pc = "recommend_models"
    /\ max_params' = MaxParams(vram_gb)
    /\ models' = SelectModels(vram_gb)
    /\ console' = console \o <<"Feasible Local Deployment">> \o CpuNote(device_type)
    /\ calls' = Append(calls, "recommend_models")
    /\ pc' = "generate_html_report"
    /\ UNCHANGED <<machine, probeVars, html, file, stepVars, exit>>

\* lines 205-213
RenderReport ==
    /\ pc = "generate_html_report"
    /\ html' = GenerateHtmlReport(system, ram_gb, device_type, vram_gb, max_params,
                                  GpuDetailsArg(gpu_details), models)
    /\ calls' = Append(calls, "generate_html_report")
    /\ pc' = "write_text"
    /\ UNCHANGED <<machine, probeVars, max_params, models, file, console,
                   stepVars, exit>>

\* variant of lines 217-227 with webbrowser.open after the try statement
WriteText_OpenAnyway ==
    /\ pc = "write_text"
    /\ calls' = Append(calls, "write_text")
    /\ \/ /\ file' = <<html>>
          /\ console' = Append(console, "HTML report generated")
       \/ \E e \in WriteErrors :
             /\ console' = Append(console, WriteError(e))
             /\ UNCHANGED file
    /\ pc' = "webbrowser_open"
    /\ UNCHANGED <<machine, probeVars, max_params, models, html, stepVars, exit>>

\* lines 216-220, and the handlers of lines 224-227
WriteText ==
    /\ pc = "write_text"
    /\ calls' = Append(calls, "write_text")
    /\ \/ /\ file' = <<html>>
          /\ console' = Append(console, "HTML report generated")
          /\ pc' = "webbrowser_open"
          /\ UNCHANGED exit
       \/ \E e \in WriteErrors :
             /\ console' = Append(console, WriteError(e))
             /\ pc' = "returned"
             /\ exit' = "ok"
             /\ UNCHANGED file
    /\ UNCHANGED <<machine, probeVars, max_params, models, html, stepVars>>

\* line 223, and the handlers of lines 224-227
WebbrowserOpen ==
    /\ pc = "webbrowser_open"
    /\ calls' = Append(calls, "webbrowser.open")
    /\ \/ UNCHANGED console
       \/ \E e \in WriteErrors : console' = Append(console, WriteError(e))
    /\ pc' = "returned"
    /\ exit' = "ok"
    /\ UNCHANGED <<machine, probeVars, max_params, models, html, file, stepVars>>

Next ==
    \/ SystemQuery
    \/ CudaIsAvailable
    \/ CudaDeviceCount
    \/ CudaDeviceProperties
    \/ MpsCheck
    \/ CpuFallback
    \/ RecommendModels
    \/ RenderReport
    \/ WriteText
    \/ WebbrowserOpen

Spec == Init /\ [][Next]_vars

----------------------------------------------------------------------------
(* recommend_models and generate_html_report called on their own, as a     *)
(* test of the estimator calls them: any usable memory, any device type,   *)
(* and recommend_models a second time with other arguments.                *)

InitEst ==
    /\ machine = [system |-> "Linux", ram |-> 8 * Scale, gpus |-> <<>>, mps |-> FALSE]
    /\ pc = "recommend_models"
    /\ system = "Linux"
    /\ ram_gb = 8 * Scale
    /\ device_type \in DeviceTypes
    /\ vram_gb \in EstInputs
    /\ gpu_details = <<>>
    /\ gpu_count = 0
    /\ i = 0
    /\ max_params = 0
    /\ models = <<>>
    /\ html = NoHtml
    /\ file = <<>>
    /\ console = <<>>
    /\ calls = <<>>
    /\ gpu_step = "pending"
    /\ mps_step = "pending"
    /\ cpu_step = "pending"
    /\ exit = "running"
    /\ earlier = <<>>

\* recommend_models(v, dt) called again
RecommendAgain ==
    /\ pc = "generate_html_report"
    /\ earlier = <<>>
    /\ \E v \in EstInputs, dt \in DeviceTypes :
          /\ earlier' = <<[vram_gb |-> vram_gb, max_params |-> max_params]>>
          /\ vram_gb' = v
          /\ device_type' = dt
          /\ max_params' = MaxParams(v)
          /\ models' = SelectModels(v)
          /\ console' = <<"Feasible Local Deployment">> \o CpuNote(dt)
    /\ calls' = Append(calls, "recommend_models")
    /\ UNCHANGED <<machine, pc, system, ram_gb, gpu_details, gpu_count, i, html,
                   file, gpu_step, mps_step, cpu_step, exit>>

NextEst ==
    \/ RecommendModels
    \/ RecommendAgain
    \/ RenderReport

SpecEst == InitEst /\ [][NextEst]_vars

----------------------------------------------------------------------------
(* Properties *)

ProbeQueries == {"system_memory", "cuda.is_available", "cuda.device_count",
                 "cuda.get_device_properties", "mps.is_available"}

ProbeReturned == pc \in {"recommend_models", "generate_html_report", "write_text",
                         "webbrowser_open", "returned"}
Estimated == pc \in {"generate_html_report", "write_text", "webbrowser_open", "returned"}
Rendered == pc \in {"write_text", "webbrowser_open", "returned"}

GB(n) == n * Scale
CentiGB(n) == n * (Scale \div 100)

RECURSIVE TotalMemory(_)
TotalMemory(gpus) ==
    IF gpus = <<>> THEN 0 ELSE gpus[1].total_memory + TotalMemory(Tail(gpus))

DetailsOf(gpus) == [k \in 1..Len(gpus) |->
                       [name |-> gpus[k].name, vram |-> gpus[k].total_memory]]

\* C1: no exception raised by a query of the probe leaves get_hardware_capacity:
\* the run is never ended by an exception whose last call was a probe query.
C1_ProbeExceptionNeverPropagates ==
    ~(exit = "exception" /\ calls # <<>> /\ calls[Len(calls)] \in ProbeQueries)

\* C2: a backend whose probe raised is treated as absent: after a failed GPU
\* step the report is not GPU and carries the memory and (empty) device list of
\* the step that succeeded next; after a failed unified-memory step it is CPUOnly.
C2_FailedProbeMeansBackendAbsent ==
    ProbeReturned =>
        /\ gpu_step = "failed" =>
              /\ device_type # "cuda"
              /\ gpu_details = <<>>
              /\ \/ mps_step = "found" /\ device_type = "mps"
                                      /\ vram_gb * 4 = ram_gb * 3
                 \/ mps_step # "found" /\ device_type = "cpu"
                                      /\ vram_gb * 2 = ram_gb
        /\ mps_step = "failed" => device_type = "cpu" /\ vram_gb * 2 = ram_gb

\* C3: when the GPU query reports one or more devices (none of its calls
\* raising), the report is GPU, its usable memory is the sum of the devices'
\* memory and its device list has one (name, memory) entry per device, in order.
C3_GpuReportIsSumOfDevices ==
    (ProbeReturned /\ gpu_step = "found" /\ Len(machine.gpus) >= 1) =>
        /\ device_type = "cuda"
        /\ vram_gb = TotalMemory(machine.gpus)
        /\ gpu_details = DetailsOf(machine.gpus)

\* C4: detection short-circuits on the first step that succeeds: the
\* unified-memory query is made only if the GPU step did not succeed, the CPU
\* fallback is taken only if neither earlier step succeeded, and after a step
\* has succeeded no step changes device_type or vram_gb.
C4_DetectionShortCircuits ==
    [][ /\ (mps_step = "pending" /\ mps_step' \in {"found", "absent", "failed"})
              => gpu_step # "found"
        /\ (cpu_step = "pending" /\ cpu_step' = "taken")
              => (gpu_step # "found" /\ mps_step # "found")
        /\ (gpu_step = "found" \/ mps_step = "found")
              => (device_type' = device_type /\ vram_gb' = vram_gb) ]_vars

\* C5: on a machine without GPU and without unified-memory accelerator the
\* report is CPUOnly with exactly half of the RAM as usable memory; with 16.0 GB
\* of RAM the run ends with 8.0 GB usable, max_params 8 and the Standard tier.
C5_CpuOnlyIsHalfOfRam ==
    (machine.gpus = <<>> /\ ~machine.mps) =>
        /\ ProbeReturned =>
              /\ device_type = "cpu"
              /\ ram_gb = machine.ram
              /\ vram_gb * 2 = machine.ram
        /\ (Rendered /\ machine.ram = GB(16)) =>
              /\ vram_gb = GB(8)
              /\ max_params = 8
              /\ models = StandardModels
              /\ html.tier = "Standard"

C5_Witness ==
    /\ pc = "returned"
    /\ file = <<html>>
    /\ machine.gpus = <<>> /\ ~machine.mps /\ machine.ram = GB(16)
    /\ device_type = "cpu" /\ vram_gb = GB(8) /\ max_params = 8

FloorOfQuotient(n, d) == n \div d

\* C7: max_params is max(2, floor((vram_gb - 2.0) / 0.75)): never less than 2,
\* exactly 2 below 3.5 GB, and 21 for 18.0 GB.
C7_MaxParamsFormula ==
    Estimated =>
        /\ max_params = IF FloorOfQuotient(vram_gb - GB(2), CentiGB(75)) > 2
                        THEN FloorOfQuotient(vram_gb - GB(2), CentiGB(75))
                        ELSE 2
        /\ max_params >= 2
        /\ vram_gb < CentiGB(350) => max_params = 2
        /\ vram_gb = GB(18) => max_params = 21

C7_Witness ==
    /\ Estimated
    /\ earlier # <<>>
    /\ earlier[1].vram_gb = GB(1) /\ earlier[1].max_params = 2
    /\ vram_gb = GB(18) /\ max_params = 21

\* C8: the tiers are the right-open intervals [48, oo) Enterprise, [24, 48)
\* Professional, [16, 24) Advanced, [8, 16) Standard, [0, 8) Entry: every
\* vram_gb gets the badge and the model list of exactly one of them.
C8_TierBoundaries ==
    Rendered =>
        /\ vram_gb >= GB(48) <=> (html.tier = "Enterprise" /\ models = EnterpriseModels)
        /\ (GB(24) <= vram_gb /\ vram_gb < GB(48))
              <=> (html.tier = "Professional" /\ models = ProfessionalModels)
        /\ (GB(16) <= vram_gb /\ vram_gb < GB(24))
              <=> (html.tier = "Advanced" /\ models = AdvancedModels)
        /\ (GB(8) <= vram_gb /\ vram_gb < GB(16))
              <=> (html.tier = "Standard" /\ models = StandardModels)
        /\ vram_gb < GB(8) <=> (html.tier = "Entry" /\ models = EntryModels)
        /\ vram_gb = GB(48) => html.tier = "Enterprise"
        /\ vram_gb = CentiGB(4799) => html.tier = "Professional"
        /\ vram_gb = GB(24) => html.tier = "Professional"
        /\ vram_gb = GB(18) => html.tier = "Advanced"
        /\ vram_gb = GB(8) => html.tier = "Standard"
        /\ vram_gb = CentiGB(799) => html.tier = "Entry"
        /\ html.model_cards = models

C8_Witness ==
    /\ Rendered
    /\ vram_gb = CentiGB(4799)
    /\ html.tier = "Professional" /\ models = ProfessionalModels

\* C9: max_params is monotone: of two calls of recommend_models, the one with
\* the smaller (or equal) vram_gb returns the smaller (or equal) max_params,
\* whatever the device types.
C9_MaxParamsMonotone ==
    (Estimated /\ earlier # <<>>) =>
        /\ earlier[1].vram_gb <= vram_gb => earlier[1].max_params <= max_params
        /\ vram_gb <= earlier[1].vram_gb => max_params <= earlier[1].max_params

C9_Witness ==
    /\ Estimated
    /\ earlier # <<>>
    /\ earlier[1].vram_gb < vram_gb /\ earlier[1].max_params < max_params
    /\ earlier[1].max_params > 2

\* C10: the run always ends normally: whatever fails inside main(), main()
\* returns and no exception leaves it.
C10_RunAlwaysExitsZero ==
    pc \in {"returned", "raised"} => exit = "ok"

\* C11: the document carries the operating-system name and the RAM value it was
\* given, the RAM as text with one decimal; it has no gpu-grid element and no
\* gpu-card when the device list is empty, and otherwise a gpu-grid with one
\* gpu-card per device (its name, its memory with two decimals), in order.
C11_RenderSystemRamAndDevices ==
    Rendered =>
        /\ html.system = system /\ system = machine.system
        /\ 2 * (html.ram_gb * Scale - 10 * ram_gb) <= Scale
        /\ 2 * (10 * ram_gb - html.ram_gb * Scale) <= Scale
        /\ ram_gb = machine.ram
        /\ gpu_details = <<>> => (~html.gpu_grid /\ html.gpu_cards = <<>>)
        /\ gpu_details # <<>> =>
              /\ html.gpu_grid
              /\ Len(html.gpu_cards) = Len(gpu_details)
              /\ \A k \in 1..Len(gpu_details) :
                    /\ html.gpu_cards[k].name = gpu_details[k].name
                    /\ html.gpu_cards[k].vram * Scale = 100 * gpu_details[k].vram

C11_Witness ==
    /\ Rendered
    /\ machine.system = "Darwin" /\ html.system = "Darwin"
    /\ machine.ram = GB(16) + CentiGB(1) /\ html.ram_gb = 160
    /\ Len(gpu_details) = 2 /\ Len(html.gpu_cards) = 2
    /\ gpu_details[1].name # gpu_details[2].name
    /\ html.gpu_cards[1].vram = 799 /\ html.gpu_cards[2].vram = 800

MainSteps == <<"system_memory", "recommend_models", "generate_html_report",
               "write_text", "webbrowser.open">>

StepRank(c) == IF c \in ProbeQueries THEN 1
               ELSE IF c = MainSteps[2] THEN 2
               ELSE IF c = MainSteps[3] THEN 3
               ELSE IF c = MainSteps[4] THEN 4
               ELSE 5

Called(c) == \E k \in 1..Len(calls) : calls[k] = c

\* C12: main() runs probe, estimate, render, write, open in this order, each at
\* most once; the file is written only with a rendered document, the viewer is
\* opened only after a write that succeeded, and after the viewer call, failed
\* or not, the file is still there and main() returns.
C12_MainStepOrder ==
    /\ \A j, k \in 1..Len(calls) :
          j < k => /\ StepRank(calls[j]) <= StepRank(calls[k])
                   /\ calls[j] = calls[k] => calls[j] \in ProbeQueries \ {"system_memory"}
    /\ \A r \in 2..Len(MainSteps) : Called(MainSteps[r]) => Called(MainSteps[r - 1])
    /\ Called("write_text") => html # NoHtml
    /\ file # <<>> => (file = <<html>> /\ html # NoHtml /\ Called("write_text"))
    /\ (pc = "webbrowser_open" \/ Called("webbrowser.open")) => file = <<html>>
    /\ Called("webbrowser.open") => (pc = "returned" /\ exit = "ok")

C12_Witness ==
    /\ pc = "returned" /\ exit = "ok"
    /\ calls[Len(calls)] = "webbrowser.open"
    /\ console[Len(console)] = "Unexpected error"
    /\ file = <<html>>

\* C13: every report is consistent: the tier badge is the tier of the model
\* list, the CPU warning panel is there exactly for device_type "cpu", and a
\* "cpu" or "mps" report has no device section.
C13_ReportConsistency ==
    Rendered =>
        /\ html.tier = "Enterprise" <=> models = EnterpriseModels
        /\ html.tier = "Professional" <=> models = ProfessionalModels
        /\ html.tier = "Advanced" <=> models = AdvancedModels
        /\ html.tier = "Standard" <=> models = StandardModels
        /\ html.tier = "Entry" <=> models = EntryModels
        /\ html.warning_box <=> device_type = "cpu"
        /\ device_type \in {"cpu", "mps"} =>
              (gpu_details = <<>> /\ ~html.gpu_grid /\ html.gpu_cards = <<>>)

====
